---- MODULE Spec2Model ----
(***************************************************************************)
(* Model of deploy_cloud_run.py: a dotenv parser (parse_env_file), a       *)
(* command runner (run) and the deployment sequence of main().             *)
(*                                                                         *)
(* Text is modelled as a sequence of one-character strings, so that        *)
(* strip / split / startswith / slicing are computed character by          *)
(* character as Python computes them.  A few fixed texts (messages, the    *)
(* name GEMINI_API_KEY) are single tokens of such a sequence.               *)
(***************************************************************************)
EXTENDS Integers, Sequences, FiniteSets, TLC

VARIABLES
    pc,           \* position of main(): "start", "serialize", "build", "deploy", "describe", "done"
    envFile,      \* .env.local: [exists, lines]
    env_vars,     \* main()'s env_vars mapping (key text -> value text)
    tempFile,     \* env_vars_temp.yaml on disk: [exists, content]
    tempCreated,  \* history: open(TEMP_ENV_YAML, "w") has created the file
    console,      \* what has been written to the terminal, in order
    invoked,      \* the external commands started so far, in order, with their outcome
    exitCode,     \* exit status of the process, Running while it has not terminated
    r_in,         \* arguments of a stand-alone call of run(): [check, capture, child]
    r_out         \* what that call of run() did, Pending before the call

vars == <<pc, envFile, env_vars, tempFile, tempCreated, console, invoked, exitCode, r_in, r_out>>

-----------------------------------------------------------------------------
(* Bounds                                                                  *)

MaxLineLen == 6     \* longest line of the parser's input space
MaxLines == 2       \* longest .env.local of the deployment runs

-----------------------------------------------------------------------------
(* Text helpers: Python's str methods on sequences of characters           *)

Whitespace == {" ", "\n"}

RECURSIVE LStrip(_)
LStrip(s) == IF s # <<>> /\ Head(s) \in Whitespace THEN LStrip(Tail(s)) ELSE s

RECURSIVE RStrip(_)
RStrip(s) ==
    IF s # <<>> /\ s[Len(s)] \in Whitespace THEN RStrip(SubSeq(s, 1, Len(s) - 1)) ELSE s

\* str.strip()
Strip(s) == RStrip(LStrip(s))

\* c in s
Contains(s, c) == \E i \in 1..Len(s) : s[i] = c

\* s.find(c) + 1: position of the first c in s, 0 when there is none
RECURSIVE FindFrom(_, _, _)
FindFrom(s, c, i) ==
    IF i > Len(s) THEN 0
    ELSE IF s[i] = c THEN i
    ELSE FindFrom(s, c, i + 1)

\* s.split(c, 1) for a text s that contains c: the parts before and after the first c
SplitFirst(s, c) ==
    LET i == FindFrom(s, c, 1)
    IN  <<SubSeq(s, 1, i - 1), SubSeq(s, i + 1, Len(s))>>

StartsWith(s, c) == s # <<>> /\ s[1] = c
EndsWith(s, c) == s # <<>> /\ s[Len(s)] = c

\* s[1:-1]
SliceInner(s) == SubSeq(s, 2, Len(s) - 1)

Range(s) == {s[i] : i \in 1..Len(s)}

-----------------------------------------------------------------------------
(* parse_env_file                                                          *)

NoFile == [exists |-> FALSE, lines |-> <<>>]

FileOf(lines) == [exists |-> TRUE, lines |-> lines]

EmptyMap == [k \in {} |-> <<>>]

\* env_vars[key] = value
DictSet(m, key, value) ==
    [k \in (DOMAIN m) \cup {key} |-> IF k = key THEN value ELSE m[k]]

\* the quote test and slice of lines 57-60
Unquote(value) ==
    IF \/ (StartsWith(value, "\"") /\ EndsWith(value, "\""))
       \/ (StartsWith(value, "'") /\ EndsWith(value, "'"))
    THEN SliceInner(value)
    ELSE value

\* line.split("=", 1) of line 55
SplitKeyValueLast(line) ==
    LET n == Len(line)
        j == CHOOSE i \in 1..n : line[i] = "=" /\ \A k \in (i + 1)..n : line[k] # "="
    IN  <<SubSeq(line, 1, j - 1), SubSeq(line, j + 1, n)>>
SplitKeyValue(line) == SplitFirst(line, "=")

\* the comment truncation of lines 52-53
StripComment(line) ==
    IF Contains(line, "#") THEN Strip(SplitFirst(line, "#")[1]) ELSE line

\* the body of the loop over the lines of the file (lines 49-61): the mapping after one line
ParseLine(m, raw) ==
    LET line == Strip(raw)
    IN  IF line = <<>> \/ StartsWith(line, "#") THEN m
        ELSE LET l2 == StripComment(line)
             IN  IF Contains(l2, "=")
                 THEN LET kv == SplitKeyValue(l2)
                      IN  DictSet(m, Strip(kv[1]), Unquote(Strip(kv[2])))
                 ELSE m

RECURSIVE ParseLines(_, _)
ParseLines(m, lines) ==
    IF lines = <<>> THEN m ELSE ParseLines(ParseLine(m, Head(lines)), Tail(lines))

\* parse_env_file(filepath): [env, printed]
parse_env_file(file) ==
    IF ~file.exists
    THEN [env |-> EmptyMap, printed |-> << <<"Error: .env.local not found.">> >>]
    ELSE [env |-> ParseLines(EmptyMap, file.lines), printed |-> <<>>]

-----------------------------------------------------------------------------
(* run                                                                     *)

\* Python's None for an output stream that was not captured
None == <<"<None>">>

\* a or b
Or(a, b) == IF a # None /\ a # <<>> THEN a ELSE b

MsgCommandFailed == <<"Command failed.">>
MsgCommandNotFound == <<"Command not found">>

\* a line on the terminal: written by print() of the script, by a child
\* process whose output is not captured, or by the interpreter (traceback)
Say(text) == [by |-> "script", text |-> text]
ChildSays(text) == [by |-> "child", text |-> text]
Traceback == [by |-> "python", text |-> <<"Traceback">>]

\* what the terminal shows of a child that ran without capture
Streamed(child) ==
    (IF child.stdout # <<>> THEN <<ChildSays(child.stdout)>> ELSE <<>>)
    \o (IF child.stderr # <<>> THEN <<ChildSays(child.stderr)>> ELSE <<>>)

\* subprocess.run(cmd, check=False, capture_output=capture, text=True) for a child that ran
Completed(capture, child) ==
    [returncode |-> child.returncode,
     stdout |-> IF capture THEN child.stdout ELSE None,
     stderr |-> IF capture THEN child.stderr ELSE None]

NoResult == [returncode |-> 0, stdout |-> None, stderr |-> None]

\* the failure branch of lines 30-34: what it prints before sys.exit
FailurePrints(capture, result) ==
    LET out == Or(result.stderr, Or(result.stdout, MsgCommandFailed))
    IN  IF ~capture THEN <<Say(out)>> ELSE <<>>

\* the test of line 30
HaltsOnOne(check, result) == check /\ result.returncode = 1
Halts(check, result) == check /\ result.returncode # 0

\* the handler of lines 36-38
OnNotFoundErrno ==
    [raised |-> "SystemExit", code |-> 2, result |-> NoResult,
     printed |-> <<Say(MsgCommandNotFound)>>]
OnNotFound ==
    [raised |-> "SystemExit", code |-> 1, result |-> NoResult,
     printed |-> <<Say(MsgCommandNotFound)>>]

\* run(cmd, check, capture) for a child with the given behaviour:
\*   raised = "none": returned result;  "SystemExit": sys.exit(code);
\*   "OSError": an exception other than FileNotFoundError left run()
run(check, capture, child) ==
    IF child.status = "notfound"
    THEN OnNotFound
    ELSE IF child.status = "oserror"
    THEN [raised |-> "OSError", code |-> 1, result |-> NoResult, printed |-> <<>>]
    ELSE LET result == Completed(capture, child)
             shown == IF capture THEN <<>> ELSE Streamed(child)
         IN  IF Halts(check, result)
             THEN [raised |-> "SystemExit", code |-> result.returncode, result |-> NoResult,
                   printed |-> shown \o FailurePrints(capture, result)]
             ELSE [raised |-> "none", code |-> 0, result |-> result, printed |-> shown]

\* exit status of the process for sys.exit(code) with an integer code
ExitStatus(code) == code % 256

-----------------------------------------------------------------------------
(* yaml.dump(env_vars, f, default_flow_style=False)                        *)
(* The block-style document is modelled as the set of its lines, one       *)
(* "key: value" line per entry; each scalar is written plain when the      *)
(* emitter may write it plain and it would be read back as a string, and   *)
(* single-quoted (with ' doubled) otherwise.                               *)

Digits == {"1"}

\* a plain scalar of this text would be read back as something other than a
\* string: null for the empty text, an integer for digits, the "=" value tag
ResolvesNonStr(s) ==
    \/ s = <<>>
    \/ \A i \in 1..Len(s) : s[i] \in Digits
    \/ s = <<"=">>

\* the emitter's analysis: the text can be written as a plain block scalar
PlainAllowed(s) ==
    \/ s = <<>>
    \/ /\ s[1] \notin Whitespace \cup {"#", "\"", "'"}
       /\ s[Len(s)] \notin Whitespace
       /\ \A i \in 2..Len(s) : ~(s[i] = "#" /\ s[i - 1] \in Whitespace)
       /\ \A i \in 1..Len(s) : s[i] = ":" => (i < Len(s) /\ s[i + 1] \notin Whitespace)

RECURSIVE DoubleQuotes(_)
DoubleQuotes(s) ==
    IF s = <<>> THEN <<>>
    ELSE (IF Head(s) = "'" THEN <<"'", "'">> ELSE <<Head(s)>>) \o DoubleQuotes(Tail(s))

YamlScalarPlain(s) == s
YamlScalar(s) ==
    IF PlainAllowed(s) /\ ~ResolvesNonStr(s)
    THEN s
    ELSE <<"'">> \o DoubleQuotes(s) \o <<"'">>

\* an empty key is not a simple key and is written as "? ''" and ": value"
YamlLine(k, v) ==
    IF k = <<>>
    THEN <<"?", " ">> \o YamlScalar(k) \o <<"\n", ":", " ">> \o YamlScalar(v)
    ELSE YamlScalar(k) \o <<":", " ">> \o YamlScalar(v)

YamlDump(m) ==
    IF DOMAIN m = {} THEN {<<"{", "}">>}
    ELSE {YamlLine(k, m[k]) : k \in DOMAIN m}

-----------------------------------------------------------------------------
(* main                                                                    *)

Running == -1

GEMINI_API_KEY == <<"GEMINI_API_KEY">>

MsgProject == <<"Project: limitless-ai-483404 (Limitless.ai)">>
MsgTarget == <<"Target URL: https://openwork-217388700222.us-central1.run.app">>
MsgReading == <<"Reading env from .env.local...">>
MsgNoEnv == <<"No environment variables found. Exiting.">>
MsgWarning == <<"Warning: GEMINI_API_KEY not set in .env.local. Chat API will return 500 until set.">>
MsgBuild == <<"[1/3] Building image in Google Cloud Build (this may take a few minutes)...">>
MsgDeploy == <<"[2/3] Deploying to Cloud Run...">>
MsgDescribe == <<"[3/3] Service URL:">>
MsgSuccessful == <<"Deployment successful. DevPost link should work.">>
MsgFinished == <<"Deployment finished. Check Cloud Run console if needed.">>
FallbackUrl == <<"https://openwork-217388700222.us-central1.run.app">>

SayAll(texts) == [i \in 1..Len(texts) |-> Say(texts[i])]

Absent == [exists |-> FALSE, content |-> {}]

\* not env_vars (line 70)
IsEmptyNever(m) == FALSE
IsEmpty(m) == DOMAIN m = {}

\* not env_vars.get("GEMINI_API_KEY")
KeyAbsent(m) == GEMINI_API_KEY \notin DOMAIN m
KeyMissing(m) == GEMINI_API_KEY \notin DOMAIN m \/ m[GEMINI_API_KEY] = <<>>

\* the finally clause of lines 119-121
Finally(tf) == IF tf.exists THEN Absent ELSE tf

\* lines 66-75: read the config, stop when it is empty, warn about the credential
Load ==
    /\ pc = "start"
    /\ LET p == parse_env_file(envFile)
           head == SayAll(<<MsgProject, MsgTarget, MsgReading>>) \o SayAll(p.printed)
       IN  /\ env_vars' = p.env
           /\ IF IsEmpty(p.env)
              THEN /\ console' = console \o head \o <<Say(MsgNoEnv)>>
                   /\ exitCode' = ExitStatus(1)
                   /\ pc' = "done"
              ELSE /\ console' = console \o head
                                   \o (IF KeyMissing(p.env) THEN <<Say(MsgWarning)>> ELSE <<>>)
                   /\ exitCode' = exitCode
                   /\ pc' = "serialize"
    /\ UNCHANGED <<envFile, tempFile, tempCreated, invoked, r_in, r_out>>

\* what can happen in lines 78-80
SerializeOutcomes == {"ok", "import_error", "open_error", "write_error"}

\* lines 78-80: import yaml, create the file, dump the mapping into it.
\* These lines are outside the try block: an exception raised here ends the
\* process (traceback, exit status 1) without running the finally clause.
Serialize ==
    /\ pc = "serialize"
    /\ \E outcome \in SerializeOutcomes :
          CASE outcome = "ok" ->
                  /\ tempFile' = [exists |-> TRUE, content |-> YamlDump(env_vars)]
                  /\ tempCreated' = TRUE
                  /\ UNCHANGED <<console, exitCode>>
                  /\ pc' = "build"
            [] outcome \in {"import_error", "open_error"} ->
                  /\ UNCHANGED <<tempFile, tempCreated>>
                  /\ console' = Append(console, Traceback)
                  /\ exitCode' = ExitStatus(1)
                  /\ pc' = "done"
            [] outcome = "write_error" ->
                  /\ tempFile' = [exists |-> TRUE, content |-> {}]
                  /\ tempCreated' = TRUE
                  /\ console' = Append(console, Traceback)
                  /\ exitCode' = ExitStatus(1)
                  /\ pc' = "done"
    /\ UNCHANGED <<envFile, env_vars, invoked, r_in, r_out>>

\* the behaviours of an external command
ReturnCodes == {-9, 0, 1, 2}
Outputs == {<<>>, <<"\n">>, <<"u", "\n">>}
Errors == {<<>>, <<"e">>}
Children ==
    [status : {"notfound", "oserror"}, returncode : {0}, stdout : {<<>>}, stderr : {<<>>}]
    \cup [status : {"ran"}, returncode : ReturnCodes, stdout : Outputs, stderr : Errors]

\* leaving the try block of lines 81-118 by an exception: the finally clause
\* runs, then the process ends with the exit status of the exception
Leave(r, shown) ==
    /\ console' = shown \o (IF r.raised = "OSError" THEN <<Traceback>> ELSE <<>>)
    /\ tempFile' = Finally(tempFile)
    /\ exitCode' = ExitStatus(r.code)
    /\ pc' = "done"

\* lines 83-84
Build ==
    /\ pc = "build"
    /\ \E child \in Children :
          LET r == run(TRUE, FALSE, child)
              shown == console \o <<Say(MsgBuild)>> \o r.printed
          IN  /\ invoked' = Append(invoked, [cmd |-> "build", child |-> child])
              /\ IF r.raised = "none"
                 THEN /\ console' = shown
                      /\ pc' = "deploy"
                      /\ UNCHANGED <<tempFile, exitCode>>
                 ELSE Leave(r, shown)
    /\ UNCHANGED <<envFile, env_vars, tempCreated, r_in, r_out>>

\* lines 87-102
Deploy ==
    /\ pc = "deploy"
    /\ \E child \in Children :
          LET r == run(TRUE, FALSE, child)
              shown == console \o <<Say(MsgDeploy)>> \o r.printed
          IN  /\ invoked' = Append(invoked, [cmd |-> "deploy", child |-> child])
              /\ IF r.raised = "none"
                 THEN /\ console' = shown
                      /\ pc' = "describe"
                      /\ UNCHANGED <<tempFile, exitCode>>
                 ELSE Leave(r, shown)
    /\ UNCHANGED <<envFile, env_vars, tempCreated, r_in, r_out>>

\* lines 112-118: what main prints for the result of the describe command
ReportUntrimmed(r) ==
    LET url == Or(r.stdout, <<>>)
    IN  IF url # <<>>
        THEN <<Say(url), Say(MsgSuccessful)>>
        ELSE <<Say(FallbackUrl), Say(MsgFinished)>>
Report(r) ==
    LET url == Strip(Or(r.stdout, <<>>))
    IN  IF url # <<>>
        THEN <<Say(url), Say(MsgSuccessful)>>
        ELSE <<Say(FallbackUrl), Say(MsgFinished)>>

\* lines 105-121
Describe ==
    /\ pc = "describe"
    /\ \E child \in Children :
          LET r == run(TRUE, TRUE, child)
              shown == console \o <<Say(MsgDescribe)>> \o r.printed
          IN  /\ invoked' = Append(invoked, [cmd |-> "describe", child |-> child])
              /\ IF r.raised = "none"
                 THEN /\ console' = shown \o Report(r.result)
                      /\ tempFile' = Finally(tempFile)
                      /\ exitCode' = ExitStatus(0)
                      /\ pc' = "done"
                 ELSE Leave(r, shown)
    /\ UNCHANGED <<envFile, env_vars, tempCreated, r_in, r_out>>

-----------------------------------------------------------------------------
(* A stand-alone call of run() with arbitrary flags                        *)

Pending == [raised |-> "pending", code |-> 0, result |-> NoResult, printed |-> <<>>]

NoCall == [check |-> FALSE, capture |-> FALSE,
           child |-> [status |-> "ran", returncode |-> 0, stdout |-> <<>>, stderr |-> <<>>]]

CallRun ==
    /\ pc = "call"
    /\ r_out = Pending
    /\ r_out' = run(r_in.check, r_in.capture, r_in.child)
    /\ UNCHANGED <<pc, envFile, env_vars, tempFile, tempCreated, console, invoked, exitCode, r_in>>

-----------------------------------------------------------------------------
(* Specifications                                                          *)

\* the lines of the .env.local files of the deployment runs
LineA == <<"A", "=", "1">>
LineB == <<"B", "=", "\"", "t", "w", "o", "\"">>

EnvLines ==
    { LineA,
      LineB,
      <<"GEMINI_API_KEY", "=", "k">>,
      <<"GEMINI_API_KEY", "=">>,
      <<"#", " ", "c">>,
      <<" ">>,
      <<"U", "=", "x", "?", "a", "=", "1", " ", "#", "c">> }

SeqsUpTo(S, n) == UNION {[1..k -> S] : k \in 0..n}

InitCommon ==
    /\ env_vars = EmptyMap
    /\ tempFile = Absent
    /\ tempCreated = FALSE
    /\ console = <<>>
    /\ invoked = <<>>
    /\ exitCode = Running
    /\ r_out = Pending

\* a deployment run
InitMain ==
    /\ InitCommon
    /\ pc = "start"
    /\ envFile \in {NoFile} \cup {FileOf(ls) : ls \in SeqsUpTo(EnvLines, MaxLines)}
    /\ r_in = NoCall

\* a call of run() with any combination of flags and child behaviour
InitRun ==
    /\ InitCommon
    /\ pc = "call"
    /\ envFile = NoFile
    /\ r_in \in [check : BOOLEAN, capture : BOOLEAN, child : Children]

Init == InitMain \/ InitRun

Next == Load \/ Serialize \/ Build \/ Deploy \/ Describe \/ CallRun

Spec == Init /\ [][Next]_vars

\* the parser and the serializer on every one-line file over ParseChars,
\* and on the two-line file A=1, B="two"
ParseChars == {"K", "1", "=", "#", "\"", "'", " "}

ExampleFile == FileOf(<<LineA, LineB>>)

InitParse ==
    /\ InitCommon
    /\ pc = "start"
    /\ envFile \in {FileOf(<<l>>) : l \in SeqsUpTo(ParseChars, MaxLineLen)} \cup {ExampleFile}
    /\ r_in = NoCall

NextParse == Load \/ Serialize

SpecParse == InitParse /\ [][NextParse]_vars

-----------------------------------------------------------------------------
(* Properties                                                              *)

Last(q) == q[Len(q)]

Count(q, x) == Cardinality({i \in 1..Len(q) : q[i] = x})

\* the script printed the text
Printed(text) == \E i \in 1..Len(console) : console[i] = Say(text)

\* the child ran to completion and exited with a status other than 0
\* (a negative returncode is a child killed by a signal: it did not exit)
ExitedNonZero(child) == child.status = "ran" /\ child.returncode > 0

ExitedZero(child) == child.status = "ran" /\ child.returncode = 0

\* C1: on every exit of main() after env_vars_temp.yaml has been created,
\* the file does not exist when the process has terminated.
C1_TempFileAbsentAtExit ==
    (pc = "done" /\ tempCreated) => ~tempFile.exists

CommandOrder == <<"build", "deploy", "describe">>

\* C2: the commands run in the order build, deploy, describe, each at most
\* once, each only after the previous one returned 0; a command that exits
\* non-zero is the last one run and its exit code is the exit code of the process.
C2_SequencedCommands ==
    /\ Len(invoked) <= 3
    /\ \A i \in 1..Len(invoked) :
          /\ invoked[i].cmd = CommandOrder[i]
          /\ i > 1 => ExitedZero(invoked[i - 1].child)
          /\ ExitedNonZero(invoked[i].child) =>
                /\ i = Len(invoked)
                /\ pc = "done"
                /\ exitCode = invoked[i].child.returncode

C2_BuildFailedWitness ==
    /\ pc = "done"
    /\ Len(invoked) = 1
    /\ ExitedNonZero(invoked[1].child)
    /\ exitCode = 2

\* the diagnostic the runner has available for a failed child: the captured
\* error stream if non-empty, else the captured output if non-empty, else
\* the generic message
Diagnostic(capture, child) ==
    IF capture /\ child.stderr # <<>> THEN child.stderr
    ELSE IF capture /\ child.stdout # <<>> THEN child.stdout
    ELSE MsgCommandFailed

\* C3: run() with check=True on a child that exits non-zero prints the
\* diagnostic and terminates the program with the child's exit code, for
\* both values of capture; with check=False it returns the failing result.
C3_FailureDiagnostic ==
    (r_out # Pending /\ ExitedNonZero(r_in.child)) =>
        IF r_in.check
        THEN /\ r_out.raised = "SystemExit"
             /\ r_out.code = r_in.child.returncode
             /\ \E i \in 1..Len(r_out.printed) :
                   r_out.printed[i] = Say(Diagnostic(r_in.capture, r_in.child))
        ELSE /\ r_out.raised = "none"
             /\ r_out.result.returncode = r_in.child.returncode

\* a line of the file adds an entry: it has an "=" before any "#"
AddsEntry(l) == \E i \in 1..Len(l) : l[i] = "=" /\ \A j \in 1..(i - 1) : l[j] # "#"

\* the file is missing or none of its lines adds an entry
NoConfig(file) == ~file.exists \/ \A i \in 1..Len(file.lines) : ~AddsEntry(file.lines[i])

\* C4: for a missing file or a file that yields an empty mapping, main()
\* gets an empty mapping, reports, and terminates with exit code 1 before the
\* temporary file is created and before any external command is invoked.
C4_NoConfigExits ==
    (pc \notin {"start", "call"} /\ NoConfig(envFile)) =>
        /\ env_vars = EmptyMap
        /\ pc = "done"
        /\ exitCode = 1
        /\ Last(console) = Say(MsgNoEnv)
        /\ ~envFile.exists => Printed(<<"Error: .env.local not found.">>)
        /\ ~tempCreated /\ ~tempFile.exists
        /\ invoked = <<>>

C4_MissingFileWitness ==
    pc = "done" /\ ~envFile.exists /\ exitCode = 1 /\ r_in = NoCall

C4_EmptyFileWitness ==
    pc = "done" /\ envFile.exists /\ Len(envFile.lines) = 2 /\ exitCode = 1 /\ invoked = <<>>
       /\ ~tempCreated /\ Last(console) = Say(MsgNoEnv)

\* C5: when the executable is not found, run() prints the 'Command not
\* found' message and terminates the process with exit code 1 whatever the
\* flags; at the build, deploy or describe step no later step is executed.
C5_CommandNotFound ==
    /\ (r_out # Pending /\ r_in.child.status = "notfound") =>
          /\ r_out.raised = "SystemExit"
          /\ r_out.code = 1
          /\ r_out.printed = <<Say(MsgCommandNotFound)>>
    /\ \A i \in 1..Len(invoked) :
          invoked[i].child.status = "notfound" =>
             /\ i = Len(invoked)
             /\ pc = "done"
             /\ exitCode = 1
             /\ Last(console) = Say(MsgCommandNotFound)

C5_RunWitness ==
    r_out # Pending /\ r_in.child.status = "notfound" /\ ~r_in.check /\ r_in.capture

C5_DeployWitness ==
    pc = "done" /\ Len(invoked) = 2 /\ invoked[2].child.status = "notfound" /\ exitCode = 1

\* the credential is absent from the mapping or maps to the empty text
NoCredential == GEMINI_API_KEY \notin DOMAIN env_vars \/ env_vars[GEMINI_API_KEY] = <<>>

\* C6: for a non-empty mapping without a (non-empty) GEMINI_API_KEY the
\* warning is printed exactly once and main() goes on to write the
\* temporary file and to run the build; the process never ends before the
\* build for that reason (only an exception of the serialization ends it
\* there); with a non-empty key there is no warning.
C6_WarningOnly ==
    (pc \notin {"start", "call"} /\ env_vars # EmptyMap) =>
        /\ Count(console, Say(MsgWarning)) = (IF NoCredential THEN 1 ELSE 0)
        /\ pc # "serialize" =>
              \/ tempCreated /\ invoked # <<>> /\ invoked[1].cmd = "build"
              \/ pc = "build" /\ tempFile.exists
              \/ pc = "done" /\ Last(console) = Traceback /\ invoked = <<>>

C6_EmptyKeyWitness ==
    /\ GEMINI_API_KEY \in DOMAIN env_vars
    /\ env_vars[GEMINI_API_KEY] = <<>>
    /\ Printed(MsgWarning)
    /\ invoked # <<>> /\ invoked[1].cmd = "build"

C6_AbsentKeyWitness ==
    /\ env_vars # EmptyMap
    /\ GEMINI_API_KEY \notin DOMAIN env_vars
    /\ Printed(MsgWarning)
    /\ invoked # <<>> /\ invoked[1].cmd = "build"

\* the text is the output without its leading and trailing whitespace
IsTrimmed(url, out) ==
    \E i, j \in 1..Len(out) :
        /\ i <= j
        /\ url = SubSeq(out, i, j)
        /\ out[i] \notin Whitespace /\ out[j] \notin Whitespace
        /\ \A k \in 1..Len(out) : (k < i \/ k > j) => out[k] \in Whitespace

AllWhitespace(out) == \A k \in 1..Len(out) : out[k] \in Whitespace

\* C7: after build and deploy succeeded and describe exited 0: for an
\* output that is empty after trimming the program prints the fallback URL
\* and 'Deployment finished' and never 'Deployment successful'; otherwise
\* it prints the trimmed output and 'Deployment successful'; the exit code is 0.
C7_DescribeReport ==
    (Len(invoked) = 3 /\ ExitedZero(invoked[3].child)) =>
        LET out == invoked[3].child.stdout
            n == Len(console)
        IN  /\ pc = "done"
            /\ exitCode = 0
            /\ IF AllWhitespace(out)
               THEN /\ console[n - 1] = Say(FallbackUrl)
                    /\ console[n] = Say(MsgFinished)
                    /\ ~Printed(MsgSuccessful)
               ELSE /\ IsTrimmed(console[n - 1].text, out)
                    /\ console[n - 1].by = "script"
                    /\ console[n] = Say(MsgSuccessful)
                    /\ ~Printed(MsgFinished)

C7_BlankOutputWitness ==
    /\ Len(invoked) = 3 /\ ExitedZero(invoked[3].child)
    /\ invoked[3].child.stdout = <<"\n">>
    /\ Last(console) = Say(MsgFinished)

C7_UrlWitness ==
    /\ Len(invoked) = 3 /\ ExitedZero(invoked[3].child)
    /\ invoked[3].child.stdout = <<"u", "\n">>
    /\ Last(console) = Say(MsgSuccessful)

-----------------------------------------------------------------------------
(* Properties of the parser and of the serialized file                     *)

Quotes == {"\"", "'"}

NameChars == {"K", "1"}

\* position of the first c in l, for a text that contains c
First(l, c) == CHOOSE i \in 1..Len(l) : l[i] = c /\ \A j \in 1..(i - 1) : l[j] # c

\* the line without its comment: everything before the first "#"
Body(l) == IF Contains(l, "#") THEN SubSeq(l, 1, First(l, "#") - 1) ELSE l

KeyText(l) == Strip(SubSeq(l, 1, First(l, "=") - 1))

ValueText(l) == Strip(SubSeq(l, First(l, "=") + 1, Len(l)))

\* KEY=VALUE with an optional comment: the key is a name
WellFormed(l) ==
    /\ Contains(Body(l), "=")
    /\ KeyText(Body(l)) # <<>>
    /\ Range(KeyText(Body(l))) \subseteq NameChars

\* the text is wrapped in one matching pair of quotes
Wrapped(t) == Len(t) >= 2 /\ t[1] \in Quotes /\ t[Len(t)] = t[1]

\* the text without its first and last character
Inner(t) == [i \in 1..(Len(t) - 2) |-> t[i + 1]]

\* C8: for a well-formed line KEY=VALUE, optionally quoted and optionally
\* followed by a comment, the parser records exactly KEY -> VALUE with the
\* comment removed, whitespace trimmed and one outer pair of matching quotes
\* stripped; a value that is not wrapped in a matching pair (a lone quote,
\* mismatched quotes) is left unchanged.
C8_WellFormedLine ==
    (pc # "start" /\ Len(envFile.lines) = 1 /\ WellFormed(envFile.lines[1])) =>
        LET b == Body(envFile.lines[1])
            t == ValueText(b)
        IN  env_vars = (KeyText(b) :> (IF Wrapped(t) THEN Inner(t) ELSE t))

\* the same, for every value except a lone quote character
WellFormedExceptLoneQuote ==
    (pc # "start" /\ Len(envFile.lines) = 1 /\ WellFormed(envFile.lines[1])) =>
        LET b == Body(envFile.lines[1])
            t == ValueText(b)
        IN  (Len(t) = 1 /\ t[1] \in Quotes)
            \/ env_vars = (KeyText(b) :> (IF Wrapped(t) THEN Inner(t) ELSE t))

CountChar(t, c) == Cardinality({i \in 1..Len(t) : t[i] = c})

\* a line with at least one "=", no "#", and nothing else in the file
DelimitedLine ==
    /\ pc # "start"
    /\ Len(envFile.lines) = 1
    /\ Contains(envFile.lines[1], "=")
    /\ ~Contains(envFile.lines[1], "#")

\* the value text is a single quote character
LoneQuote(t) == Len(t) = 1 /\ t[1] \in Quotes

\* C9 as stated: the key is the trimmed text before the first "=" and the
\* value is the trimmed text after it (stated here for every value text
\* but a lone quote character, which C8 settles).
C9_SplitOnFirstEquals ==
    (DelimitedLine /\ ~LoneQuote(ValueText(envFile.lines[1]))) =>
        env_vars = (KeyText(envFile.lines[1]) :> ValueText(envFile.lines[1]))

\* C9 as amended: only the first "=" is the delimiter: the key is the
\* trimmed text before it and has no "="; every later "=" is kept in the
\* value; the value is the trimmed text after the first "=" when that text
\* does not start and end with the same quote character, and the text
\* inside the quotes when it is wrapped in a matching pair of quotes.
C9_SplitOnFirstEqualsUnquoted ==
    DelimitedLine =>
        LET l == envFile.lines[1]
            k == KeyText(l)
            t == ValueText(l)
        IN  /\ DOMAIN env_vars = {k}
            /\ ~Contains(k, "=")
            /\ ~(t # <<>> /\ t[1] \in Quotes /\ t[Len(t)] = t[1]) => env_vars[k] = t
            /\ Wrapped(t) => env_vars[k] = Inner(t)
            /\ CountChar(env_vars[k], "=") = CountChar(l, "=") - 1

C9_Witness ==
    /\ DelimitedLine
    /\ CountChar(envFile.lines[1], "=") = 3
    /\ DOMAIN env_vars = {<<"K">>}
    /\ env_vars[<<"K">>] = <<"=", "1", "=">>

\* Reading the serialized file back: the scalar at the start of a text.
\* A scalar that starts with ' runs to the closing ' ('' stands for ');
\* any other scalar is plain and runs to the ": " or line break that follows it.
RECURSIVE CloseQuote(_, _)
CloseQuote(t, i) ==
    IF i > Len(t) THEN i
    ELSE IF t[i] # "'" THEN CloseQuote(t, i + 1)
    ELSE IF i < Len(t) /\ t[i + 1] = "'" THEN CloseQuote(t, i + 2)
    ELSE i

RECURSIVE Undouble(_)
Undouble(t) ==
    IF t = <<>> THEN <<>>
    ELSE IF Len(t) >= 2 /\ t[1] = "'" /\ t[2] = "'" THEN <<"'">> \o Undouble(SubSeq(t, 3, Len(t)))
    ELSE <<Head(t)>> \o Undouble(Tail(t))

RECURSIVE PlainEnd(_, _)
PlainEnd(t, i) ==
    IF i > Len(t) THEN i
    ELSE IF t[i] = "\n" THEN i
    ELSE IF t[i] = ":" /\ (i = Len(t) \/ t[i + 1] = " ") THEN i
    ELSE PlainEnd(t, i + 1)

\* the type a plain scalar is read as
PlainTag(t) ==
    IF t = <<>> THEN "null"
    ELSE IF \A i \in 1..Len(t) : t[i] \in Digits THEN "int"
    ELSE IF t = <<"=">> THEN "value"
    ELSE "str"

\* [tag, text, rest]: the scalar at the start of t and what follows it
ReadScalar(t) ==
    IF t # <<>> /\ t[1] = "'"
    THEN LET c == CloseQuote(t, 2)
         IN  [tag |-> "str", text |-> Undouble(SubSeq(t, 2, c - 1)),
              rest |-> SubSeq(t, c + 1, Len(t))]
    ELSE LET e == PlainEnd(t, 1)
         IN  [tag |-> PlainTag(SubSeq(t, 1, e - 1)), text |-> SubSeq(t, 1, e - 1),
              rest |-> SubSeq(t, e, Len(t))]

\* the entry a line of the file stands for
ReadEntry(line) ==
    LET complex == Len(line) >= 2 /\ line[1] = "?" /\ line[2] = " "
        k == ReadScalar(IF complex THEN SubSeq(line, 3, Len(line)) ELSE line)
        sep == IF complex THEN <<"\n", ":", " ">> ELSE <<":", " ">>
        v == ReadScalar(SubSeq(k.rest, Len(sep) + 1, Len(k.rest)))
    IN  [key |-> k.text, keytag |-> k.tag, value |-> v.text, valuetag |-> v.tag,
         ok |-> /\ Len(k.rest) >= Len(sep)
                /\ SubSeq(k.rest, 1, Len(sep)) = sep
                /\ v.rest = <<>>]

\* the entries of a mapping of strings
Entries(m) ==
    {[key |-> k, keytag |-> "str", value |-> m[k], valuetag |-> "str", ok |-> TRUE] :
        k \in DOMAIN m}

Text(k, v) == k \o <<":", " ">> \o v

\* C10 as stated: for the file A=1, B="two" the temporary file contains the
\* lines 'A: 1' and 'B: two'.
C10_ExampleLines ==
    (tempFile.exists /\ pc = "build" /\ envFile = ExampleFile) =>
        /\ Text(<<"A">>, <<"1">>) \in tempFile.content
        /\ Text(<<"B">>, <<"t", "w", "o">>) \in tempFile.content

\* C10 as amended: the temporary file written by main() represents the
\* same mapping as the parsed mapping, one entry per key, every key and
\* value read back as the same string; for the file A=1, B="two" it
\* contains the lines "A: '1'" (the value quoted, so that it is read as the
\* string "1") and "B: two" (the outer quotes of the input stripped).
C10_SameMapping ==
    (tempFile.exists /\ pc = "build") =>
        /\ {ReadEntry(line) : line \in tempFile.content} = Entries(env_vars)
        /\ Cardinality(tempFile.content) = Cardinality(DOMAIN env_vars)
        /\ envFile = ExampleFile =>
              tempFile.content = { Text(<<"A">>, <<"'", "1", "'">>),
                                   Text(<<"B">>, <<"t", "w", "o">>) }

C10_Witness ==
    /\ tempFile.exists /\ pc = "build"
    /\ envFile = ExampleFile
    /\ env_vars = (<<"A">> :> <<"1">>) @@ (<<"B">> :> <<"t", "w", "o">>)

====
